---- MODULE Spec2Model ----
(***************************************************************************)
(* Database lifecycle scripts of the task-management backend:              *)
(*   backend/scripts/create-database.ts   (CREATE DATABASE)                *)
(*   backend/scripts/drop-database.ts     (DROP DATABASE)                  *)
(*   backend/scripts/migrate.ts           (Postgrator migration runner)    *)
(*   the seed script (backend/migrations/002.do.tasks.sql, lines 29-115)   *)
(* Each script is a one-shot process: permission gate, connect, a linear   *)
(* sequence of awaited statements, connection.end().  One action of the    *)
(* model is one stretch of code between two awaits.                        *)
(***************************************************************************)
EXTENDS Integers, Sequences, FiniteSets, TLC

\* ------------------------------------------------------------------ bounds
MaxFlagLen == 3
MaxVersion == 3
MaxAppUsers == 1

\* ------------------------------------------- Number(process.env.X) in JS
\* A flag text is a sequence of one-character strings; an unset variable is
\* `undefined`.
Undefined == [defined |-> FALSE, text |-> <<>>]
Text(s) == [defined |-> TRUE, text |-> s]

StrWhiteSpaceChar == {" ", "\t", "\n", "\r"}
DecimalDigit == {"0", "1", "2", "3", "4", "5", "6", "7", "8", "9"}

DigitValue(c) ==
  CASE c = "0" -> 0 [] c = "1" -> 1 [] c = "2" -> 2 [] c = "3" -> 3
    [] c = "4" -> 4 [] c = "5" -> 5 [] c = "6" -> 6 [] c = "7" -> 7
    [] c = "8" -> 8 [] c = "9" -> 9
    [] c \in {"a", "A"} -> 10 [] c \in {"b", "B"} -> 11
    [] c \in {"c", "C"} -> 12 [] c \in {"d", "D"} -> 13
    [] c \in {"e", "E"} -> 14 [] c \in {"f", "F"} -> 15
    [] OTHER -> 99

RECURSIVE Pow(_, _)
Pow(b, n) == IF n <= 0 THEN 1 ELSE b * Pow(b, n - 1)

\* s with leading and trailing white space removed
RECURSIVE TrimLeft(_)
TrimLeft(s) ==
  IF Len(s) > 0 /\ Head(s) \in StrWhiteSpaceChar THEN TrimLeft(Tail(s)) ELSE s

RECURSIVE TrimRight(_)
TrimRight(s) ==
  IF Len(s) > 0 /\ s[Len(s)] \in StrWhiteSpaceChar
  THEN TrimRight(SubSeq(s, 1, Len(s) - 1)) ELSE s

Trim(s) == TrimRight(TrimLeft(s))

\* the first index >= i of s that holds no decimal digit
RECURSIVE SkipDigits(_, _)
SkipDigits(s, i) ==
  IF i <= Len(s) /\ s[i] \in DecimalDigit THEN SkipDigits(s, i + 1) ELSE i

\* value of the digits s[i..j] in the given radix (0 for an empty range)
RECURSIVE DigitsValue(_, _, _, _)
DigitsValue(s, i, j, radix) ==
  IF j < i THEN 0
  ELSE DigitsValue(s, i, j - 1, radix) * radix + DigitValue(s[j])

NaN == [kind |-> "nan", neg |-> FALSE, mant |-> 0, exp |-> 0]
Infinity(neg) == [kind |-> "inf", neg |-> neg, mant |-> 0, exp |-> 0]
\* the finite number (-1)^neg * mant * 10^exp
Finite(neg, mant, exp) == [kind |-> "fin", neg |-> neg, mant |-> mant, exp |-> exp]

\* NonDecimalIntegerLiteral: 0x / 0o / 0b and at least one digit of the radix
NonDecimalRadix(c) ==
  CASE c \in {"x", "X"} -> 16 [] c \in {"o", "O"} -> 8
    [] c \in {"b", "B"} -> 2 [] OTHER -> 0

IsNonDecimalLiteral(s) ==
  /\ Len(s) >= 3
  /\ s[1] = "0"
  /\ NonDecimalRadix(s[2]) > 0
  /\ \A i \in 3..Len(s) : DigitValue(s[i]) < NonDecimalRadix(s[2])

\* StrUnsignedDecimalLiteral:
\*   Infinity | Digits . Digits? Exp? | . Digits Exp? | Digits Exp?
StrUnsignedDecimalLiteral(s, neg) ==
  LET a == SkipDigits(s, 1)
      hasDot == a <= Len(s) /\ s[a] = "."
      b == IF hasDot THEN SkipDigits(s, a + 1) ELSE a
      intLen == a - 1
      fracLen == IF hasDot THEN b - a - 1 ELSE 0
      hasExp == b <= Len(s) /\ s[b] \in {"e", "E"}
      expNeg == hasExp /\ b + 1 <= Len(s) /\ s[b + 1] = "-"
      c == IF hasExp /\ b + 1 <= Len(s) /\ s[b + 1] \in {"+", "-"}
           THEN b + 2 ELSE b + 1
      d == IF hasExp THEN SkipDigits(s, c) ELSE b
      expVal == IF hasExp THEN DigitsValue(s, c, d - 1, 10) ELSE 0
      mant == DigitsValue(s, 1, a - 1, 10) * Pow(10, fracLen)
              + (IF hasDot THEN DigitsValue(s, a + 1, b - 1, 10) ELSE 0)
  IN IF s = <<"I", "n", "f", "i", "n", "i", "t", "y">> THEN Infinity(neg)
     ELSE IF /\ intLen + fracLen > 0
             /\ hasExp => d > c
             /\ d = Len(s) + 1
          THEN Finite(neg, mant, (IF expNeg THEN 0 - expVal ELSE expVal) - fracLen)
          ELSE NaN

\* StringToNumber of the ECMAScript specification
StringToNumber(s) ==
  LET t == Trim(s)
  IN IF t = <<>> THEN Finite(FALSE, 0, 0)
     ELSE IF IsNonDecimalLiteral(t)
          THEN Finite(FALSE, DigitsValue(t, 3, Len(t), NonDecimalRadix(t[2])), 0)
     ELSE IF t[1] \in {"+", "-"}
          THEN StrUnsignedDecimalLiteral(Tail(t), t[1] = "-")
     ELSE StrUnsignedDecimalLiteral(t, FALSE)

\* Number(v): undefined converts to NaN, a string by StringToNumber
ToNumber(v) == IF v.defined THEN StringToNumber(v.text) ELSE NaN

\* n === 1
IsOne(n) ==
  /\ n.kind = "fin"
  /\ ~n.neg
  /\ n.exp <= 0
  /\ n.mant = Pow(10, 0 - n.exp)

\* ------------------------------------------------------------- the store
TableNames == {"users", "tasks", "roles", "user_roles", "schemaversion"}
Versions == 1..MaxVersion

\* a database without any table
EmptyDb ==
  [present |-> {}, users |-> {}, roles |-> {}, user_roles |-> {},
   schemaversion |-> {}, users_id_seq |-> 1, roles_id_seq |-> 1]

\* store error codes
DuplicateDatabase == "42P04"
InvalidCatalogName == "3D000"
DuplicateTable == "42P07"
UndefinedTable == "42P01"
InsufficientPrivilege == "42501"
ConnectionRefused == "ECONNREFUSED"
\* the runner found a file it should have applied and has no record of
ValidationFailed == "ValidationFailed"

\* ------------------------------------------------------------- the process
Scripts == {"create", "drop", "migrate", "seed"}
Gated == {"create", "drop", "seed"}

\* mutant: the gate of create-database.ts pasted into the other scripts
FlagNameOfCreate(s) ==
  IF s \in {"create", "drop", "seed"} THEN "CAN_CREATE_DATABASE" ELSE "NONE"

FlagName(s) ==
  CASE s = "create" -> "CAN_CREATE_DATABASE"
    [] s = "drop" -> "CAN_DROP_DATABASE"
    [] s = "seed" -> "CAN_SEED_DATABASE"
    [] OTHER -> "NONE"

NoEnv ==
  [CAN_CREATE_DATABASE |-> Undefined, CAN_DROP_DATABASE |-> Undefined,
   CAN_SEED_DATABASE |-> Undefined, NONE |-> Undefined]

Stmt(op, arg) == [op |-> op, arg |-> arg]

\* the migration bodies among the statements q of a run, and the version of
\* the body the run stopped at (0 when it did not stop at a body)
IsBody(x) == x.op = "BODY"
Bodies(q) == SelectSeq(q, IsBody)
FailedAt(q) == IF q # <<>> /\ IsBody(q[Len(q)]) THEN q[Len(q)].arg ELSE 0

NoRun == [script |-> "none", outcome |-> "none", log |-> {}, applied |-> 0,
          failedAt |-> 0]

VARIABLES
  dbExists,      \* the database POSTGRES_DATABASE exists in the cluster
  db,            \* its tables, rows and identity sequences
  files,         \* versions of the migration files in backend/migrations
  dirExists,     \* the directory backend/migrations exists
  pc,            \* position of the running script
  script,        \* which script the process runs
  env,           \* process.env of the run
  conn,          \* the pg Client: "none", "open", "ended"
  connects,      \* connections opened by the run
  ends,          \* calls of connection.end() by the run
  stmts,         \* statements the run sent to the store, in order
  outcome,       \* "none", "running", "exit0" (normal completion), "crash"
  log,           \* console messages of the run
  raised,        \* errors raised to the run by the store or the client
  curVersion,    \* the runner's view of the ledger version
  tableNames,    \* rows of the table enumeration of truncateTables
  storeAtStart,  \* the store when the run started
  prev           \* the run of the same script that ended right before this
                 \* one started, if there was one

store == <<dbExists, db>>
disk == <<files, dirExists>>
vars == <<dbExists, db, files, dirExists, pc, script, env, conn, connects, ends,
          stmts, outcome, log, raised, curVersion, tableNames, storeAtStart, prev>>

Init ==
  /\ dbExists \in BOOLEAN
  /\ db = EmptyDb
  /\ files = {1, 2}
  /\ dirExists = TRUE
  /\ pc = "idle"
  /\ script = "none"
  /\ env = NoEnv
  /\ conn = "none"
  /\ connects = 0
  /\ ends = 0
  /\ stmts = <<>>
  /\ outcome = "none"
  /\ log = {}
  /\ raised = {}
  /\ curVersion = 0
  /\ tableNames = {}
  /\ storeAtStart = [dbExists |-> dbExists, db |-> db]
  /\ prev = NoRun

Between == pc \in {"idle", "done"}

\* The process has exited and the operator does something else: nothing of
\* the last run is kept.
Forget ==
  /\ pc' = "idle"
  /\ script' = "none"
  /\ env' = NoEnv
  /\ conn' = "none"
  /\ connects' = 0
  /\ ends' = 0
  /\ stmts' = <<>>
  /\ outcome' = "none"
  /\ log' = {}
  /\ raised' = {}
  /\ curVersion' = 0
  /\ tableNames' = {}
  /\ storeAtStart' = [dbExists |-> dbExists', db |-> db']
  /\ prev' = NoRun

\* node <script>: a fresh process with its environment
Start(s, e) ==
  /\ Between
  /\ pc' = IF s \in Gated THEN "gate" ELSE "connect"
  /\ script' = s
  /\ env' = e
  /\ conn' = "none"
  /\ connects' = 0
  /\ ends' = 0
  /\ stmts' = <<>>
  /\ outcome' = "running"
  /\ log' = {}
  /\ raised' = {}
  /\ curVersion' = 0
  /\ tableNames' = {}
  /\ storeAtStart' = [dbExists |-> dbExists, db |-> db]
  /\ prev' = IF pc = "done" /\ script = s
              THEN [script |-> script, outcome |-> outcome, log |-> log,
                    applied |-> Len(Bodies(stmts)) - (IF FailedAt(stmts) > 0 THEN 1 ELSE 0),
                    failedAt |-> FailedAt(stmts)]
              ELSE NoRun
  /\ UNCHANGED <<store, disk>>

\* mutant: if (!process.env.CAN_X_DATABASE) throw
GatePermitsTruthy(v) == v.defined /\ v.text # <<>>

\* mutant: process.env.CAN_X_DATABASE !== '1'
GatePermitsLiteral(v) == v = Text(<<"1">>)

\* Number(process.env.CAN_X_DATABASE) !== 1 is false
GatePermits(v) == IsOne(ToNumber(v))

\* the module-level check of a gated script
Gate ==
  /\ pc = "gate"
  /\ IF GatePermits(env[FlagName(script)])
     THEN /\ pc' = "connect"
          /\ UNCHANGED <<outcome, log>>
     ELSE /\ pc' = "done"
          /\ outcome' = "crash"
          /\ log' = log \cup {"permission_error"}
  /\ UNCHANGED <<store, disk, script, env, conn, connects, ends, stmts, raised,
                 curVersion, tableNames, storeAtStart, prev>>

\* The database the Client of the script names.  drop-database.ts names none
\* and is connected to the user's default database, which is taken to be a
\* maintenance database apart from POSTGRES_DATABASE that is always there.
ConnectsToTarget(s) == s # "drop"

\* mutant: a catch block with no finally after it
CaughtWithoutFinally(code) ==
  /\ raised' = raised \cup {code}
  /\ log' = log \cup {"error_logged"}
  /\ pc' = "done"

\* mutant: the error logged where it arose, and the try block carried on
CaughtInPlace(code) ==
  /\ raised' = raised \cup {code}
  /\ log' = log \cup {"error_logged"}
  /\ pc' = "seedUsers"

\* catch (error) { console.error(...) } of the script's main function
Caught(code) ==
  /\ raised' = raised \cup {code}
  /\ log' = log \cup {"error_logged"}
  /\ pc' = "end"

\* mutant: connect() awaited inside the try block
RejectedInTry(code) ==
  /\ Caught(code)
  /\ conn' = "none"
  /\ outcome' = outcome

\* a rejection of connect() has no handler: the process dies of it
Rejected(code) ==
  /\ conn' = "none"
  /\ pc' = "done"
  /\ outcome' = "crash"
  /\ log' = log \cup {"unhandled_rejection"}
  /\ raised' = raised \cup {code}

\* await connection.connect(), outside every try block
Connect ==
  /\ pc = "connect"
  /\ connects' = connects + 1
  /\ \E refused \in BOOLEAN :
       LET code == IF refused THEN ConnectionRefused
                   ELSE IF ConnectsToTarget(script) /\ ~dbExists
                        THEN InvalidCatalogName
                        ELSE "ok"
       IN IF code = "ok"
          THEN /\ conn' = "open"
               /\ pc' = "body"
               /\ UNCHANGED <<outcome, log, raised>>
          ELSE Rejected(code)
  /\ UNCHANGED <<store, disk, script, env, ends, stmts, curVersion, tableNames,
                 storeAtStart, prev>>

\* mutant: the check of dropDB pasted into createDB
CreateIgnoresMissing(code) == code = InvalidCatalogName

\* error.code === '42P04' in createDB
CreateIgnores(code) == code = DuplicateDatabase

\* createDB and the rest of the try block of createDatabase
CreateDB ==
  /\ pc = "body" /\ script = "create"
  /\ stmts' = Append(stmts, Stmt("CREATE DATABASE", 0))
  /\ \E denied \in BOOLEAN :
       LET code == IF denied THEN InsufficientPrivilege
                   ELSE IF dbExists THEN DuplicateDatabase
                   ELSE "ok"
       IN IF code = "ok"
          THEN /\ dbExists' = TRUE
               /\ db' = EmptyDb
               /\ log' = log \cup {"created", "created_successfully"}
               /\ pc' = "end"
               /\ UNCHANGED raised
          ELSE IF CreateIgnores(code)
          THEN /\ raised' = raised \cup {code}
               /\ log' = log \cup {"already_exists", "created_successfully"}
               /\ pc' = "end"
               /\ UNCHANGED store
          ELSE /\ Caught(code)
               /\ UNCHANGED store
  /\ UNCHANGED <<disk, script, env, conn, connects, ends, outcome, curVersion,
                 tableNames, storeAtStart, prev>>

\* mutant: the check of createDB pasted into dropDB
DropIgnoresDuplicate(code) == code = DuplicateDatabase

\* error.code === '3D000' in dropDB
DropIgnores(code) == code = InvalidCatalogName

\* dropDB and the rest of the try block of dropDatabase
DropDB ==
  /\ pc = "body" /\ script = "drop"
  /\ stmts' = Append(stmts, Stmt("DROP DATABASE", 0))
  /\ \E denied \in BOOLEAN :
       LET code == IF denied THEN InsufficientPrivilege
                   ELSE IF ~dbExists THEN InvalidCatalogName
                   ELSE "ok"
       IN IF code = "ok"
          THEN /\ dbExists' = FALSE
               /\ db' = EmptyDb
               /\ log' = log \cup {"dropped", "dropped_successfully"}
               /\ pc' = "end"
               /\ UNCHANGED raised
          ELSE IF DropIgnores(code)
          THEN /\ raised' = raised \cup {code}
               /\ log' = log \cup {"does_not_exist", "dropped_successfully"}
               /\ pc' = "end"
               /\ UNCHANGED store
          ELSE /\ Caught(code)
               /\ UNCHANGED store
  /\ UNCHANGED <<disk, script, env, conn, connects, ends, outcome, curVersion,
                 tableNames, storeAtStart, prev>>

\* finally { await connection.end() }, then the process exits normally
End ==
  /\ pc = "end"
  /\ conn' = "ended"
  /\ ends' = ends + 1
  /\ outcome' = "exit0"
  /\ pc' = "done"
  /\ UNCHANGED <<store, disk, script, env, connects, stmts, log, raised,
                 curVersion, tableNames, storeAtStart, prev>>

\* ------------------------------------------------------- migrate.ts
Max(S) == CHOOSE m \in S : \A n \in S : n <= m
Min(S) == CHOOSE m \in S : \A n \in S : m <= n

\* mutant: the ledger is never read
DatabaseVersionUnread(d) == 0

\* mutant: the number of ledger rows instead of the highest version
DatabaseVersionCount(d) == Cardinality(d.schemaversion)

\* the version the schemaversion table records (0 when it holds no row)
DatabaseVersion(d) == Max(d.schemaversion \cup {0})

\* migration files still to run, for a runner that read version v
Pending(v) == {f \in files : f > v}

\* mutant: the highest pending version first
NextMigrationHighest(v) == Max(Pending(v))

\* the migration to run next: the lowest pending version
NextMigration(v) == Min(Pending(v))

\* The forward migrations of the repository: 001.do.users.sql creates users,
\* 002.do.tasks.sql creates tasks with foreign keys to users; a later file is
\* any SQL that touches no table of the model.  A body runs as one simple
\* query, hence in one implicit transaction: it takes effect wholly or not
\* at all.
BodyError(v, d) ==
  CASE v = 1 /\ "users" \in d.present -> DuplicateTable
    [] v = 2 /\ "tasks" \in d.present -> DuplicateTable
    [] v = 2 /\ "users" \notin d.present -> UndefinedTable
    [] OTHER -> "ok"

BodyEffect(v, d) ==
  CASE v = 1 -> [d EXCEPT !.present = @ \cup {"users"}]
    [] v = 2 -> [d EXCEPT !.present = @ \cup {"tasks"}]
    [] OTHER -> d

\* after connect: the directory check of doMigration
MigrateCheckDir ==
  /\ pc = "body" /\ script = "migrate"
  /\ IF dirExists
     THEN /\ pc' = "version"
          /\ UNCHANGED <<raised, log>>
     ELSE Caught("NoMigrationDirectory")
  /\ UNCHANGED <<store, disk, script, env, conn, connects, ends, stmts, outcome,
                 curVersion, tableNames, storeAtStart, prev>>

\* mutant: the runner configured not to validate
UnvalidatedNone(v, d) == {}

\* the files at or below version v that the ledger d has no record of: the
\* runner looks up the record of each such file before it runs anything
Unvalidated(v, d) == {f \in files : f <= v /\ f \notin d.schemaversion}

\* postgrator.migrate(): create the schemaversion table unless it is there,
\* read the version it records, and validate the files up to that version
\* against their records
MigrateGetVersion ==
  /\ pc = "version"
  /\ stmts' = Append(stmts, Stmt("SELECT version", 0))
  /\ \E denied \in BOOLEAN :
       IF denied
       THEN /\ Caught(InsufficientPrivilege)
            /\ UNCHANGED <<store, curVersion>>
       ELSE /\ db' = [db EXCEPT !.present = @ \cup {"schemaversion"}]
            /\ curVersion' = DatabaseVersion(db)
            /\ IF Unvalidated(DatabaseVersion(db), db) = {}
               THEN /\ pc' = "run"
                    /\ UNCHANGED <<raised, log>>
               ELSE Caught(ValidationFailed)
            /\ UNCHANGED dbExists
  /\ UNCHANGED <<disk, script, env, conn, connects, ends, outcome, tableNames,
                 storeAtStart, prev>>

\* the body of the lowest pending migration, through execQuery
MigrateRun ==
  /\ pc = "run"
  /\ Pending(curVersion) # {}
  /\ LET v == NextMigration(curVersion)
     IN /\ stmts' = Append(stmts, Stmt("BODY", v))
        /\ \E syntaxError \in BOOLEAN :
             LET code == IF syntaxError THEN "42601" ELSE BodyError(v, db)
             IN IF code = "ok"
                THEN /\ db' = BodyEffect(v, db)
                     /\ pc' = "record"
                     /\ UNCHANGED <<raised, log>>
                ELSE /\ Caught(code)
                     /\ UNCHANGED db
  /\ UNCHANGED <<dbExists, disk, script, env, conn, connects, ends, outcome,
                 curVersion, tableNames, storeAtStart, prev>>

\* INSERT INTO schemaversion of the migration whose body just ran
MigrateRecord ==
  /\ pc = "record"
  /\ LET v == NextMigration(curVersion)
     IN /\ stmts' = Append(stmts, Stmt("INSERT schemaversion", v))
        /\ \E denied \in BOOLEAN :
             IF denied
             THEN /\ Caught(InsufficientPrivilege)
                  /\ UNCHANGED <<db, curVersion>>
             ELSE /\ db' = [db EXCEPT !.schemaversion = @ \cup {v}]
                  /\ curVersion' = v
                  /\ pc' = "run"
                  /\ UNCHANGED <<raised, log>>
  /\ UNCHANGED <<dbExists, disk, script, env, conn, connects, ends, outcome,
                 tableNames, storeAtStart, prev>>

\* migrate() resolves: console.log('Migration completed!')
MigrateComplete ==
  /\ pc = "run"
  /\ Pending(curVersion) = {}
  /\ log' = log \cup {"migration_completed"}
  /\ pc' = "end"
  /\ UNCHANGED <<store, disk, script, env, conn, connects, ends, stmts, outcome,
                 raised, curVersion, tableNames, storeAtStart, prev>>

\* ------------------------------------------------------- the seed script
\* mutant: TRUNCATE of the tables the migrations create, the others left
TruncatedMigratedOnly(d, names) ==
  [d EXCEPT !.users = IF "users" \in names THEN {} ELSE @,
            !.user_roles = IF "users" \in names THEN {} ELSE @,
            !.schemaversion = IF "schemaversion" \in names THEN {} ELSE @,
            !.users_id_seq = IF "users" \in names THEN 1 ELSE @]

\* TRUNCATE TABLE t RESTART IDENTITY CASCADE for every t of names
Truncated(d, names) ==
  [present |-> d.present,
   users |-> IF "users" \in names THEN {} ELSE d.users,
   roles |-> IF "roles" \in names THEN {} ELSE d.roles,
   user_roles |-> IF names \cap {"users", "roles", "user_roles"} # {}
                  THEN {} ELSE d.user_roles,
   schemaversion |-> IF "schemaversion" \in names THEN {} ELSE d.schemaversion,
   users_id_seq |-> IF "users" \in names THEN 1 ELSE d.users_id_seq,
   roles_id_seq |-> IF "roles" \in names THEN 1 ELSE d.roles_id_seq]

\* truncateTables: the enumeration of the base tables of schema public
TruncateSelect ==
  /\ pc = "body" /\ script = "seed"
  /\ stmts' = Append(stmts, Stmt("SELECT table_name", 0))
  /\ \E denied \in BOOLEAN :
       IF denied
       THEN /\ Caught(InsufficientPrivilege)
            /\ UNCHANGED tableNames
       ELSE /\ tableNames' = db.present
            /\ pc' = IF db.present # {} THEN "truncate" ELSE "seedUsers"
            /\ UNCHANGED <<raised, log>>
  /\ UNCHANGED <<store, disk, script, env, conn, connects, ends, outcome,
                 curVersion, storeAtStart, prev>>

\* truncateTables: the batched TRUNCATE statements, one simple query
TruncateExec ==
  /\ pc = "truncate"
  /\ stmts' = Append(stmts, Stmt("TRUNCATE", 0))
  /\ \E denied \in BOOLEAN :
       IF denied
       THEN /\ Caught(InsufficientPrivilege)
            /\ UNCHANGED db
       ELSE /\ db' = Truncated(db, tableNames)
            /\ log' = log \cup {"truncated"}
            /\ pc' = "seedUsers"
            /\ UNCHANGED raised
  /\ UNCHANGED <<dbExists, disk, script, env, conn, connects, ends, outcome,
                 curVersion, tableNames, storeAtStart, prev>>

\* the methods of a pg Client that the scripts call
ClientMethods == {"connect", "query", "end"}

\* seedUsers: the password is hashed, then the first iteration of the roster
\* loop calls connection.execute, which a pg Client does not have: the call
\* throws a TypeError before any INSERT reaches the store
SeedUsers ==
  /\ pc = "seedUsers"
  /\ "execute" \notin ClientMethods
  /\ Caught("TypeError")
  /\ UNCHANGED <<store, disk, script, env, conn, connects, ends, stmts, outcome,
                 curVersion, tableNames, storeAtStart, prev>>

\* ------------------------------------------------------- the environment
\* docker compose up with POSTGRES_DB: the image creates the database
ComposeUp ==
  /\ Between
  /\ ~dbExists
  /\ dbExists' = TRUE
  /\ db' = EmptyDb
  /\ UNCHANGED disk
  /\ Forget

\* a developer adds a migration file, or removes one of several (a change of
\* branch); the directory keeps at least one file
AddFile(v) ==
  /\ Between
  /\ v \notin files
  /\ files' = files \cup {v}
  /\ UNCHANGED <<store, dirExists>>
  /\ Forget

RemoveFile(v) ==
  /\ Between
  /\ v \in files
  /\ files # {v}
  /\ files' = files \ {v}
  /\ UNCHANGED <<store, dirExists>>
  /\ Forget

\* the migrations directory is moved away or put back
SetDir(b) ==
  /\ Between
  /\ dirExists # b
  /\ dirExists' = b
  /\ UNCHANGED <<store, files>>
  /\ Forget

\* the roles and user_roles tables, which no migration of the repository
\* creates, are created by other means
ProvisionRoleTables ==
  /\ Between
  /\ dbExists
  /\ "users" \in db.present
  /\ "roles" \notin db.present
  /\ db' = [db EXCEPT !.present = @ \cup {"roles", "user_roles"}]
  /\ UNCHANGED <<dbExists, disk>>
  /\ Forget

\* the application registers a user (and its role, when roles are there)
AppAddUser ==
  /\ Between
  /\ dbExists
  /\ "users" \in db.present
  /\ Cardinality(db.users) < MaxAppUsers
  /\ LET uid == db.users_id_seq
         rid == db.roles_id_seq
         withRoles == "roles" \in db.present
     IN db' = [db EXCEPT
                 !.users = @ \cup {[id |-> uid, username |-> "prior"]},
                 !.users_id_seq = @ + 1,
                 !.roles = IF withRoles THEN @ \cup {[id |-> rid, name |-> "prior"]}
                           ELSE @,
                 !.roles_id_seq = IF withRoles THEN @ + 1 ELSE @,
                 !.user_roles = IF withRoles
                                THEN @ \cup {[user_id |-> uid, role_id |-> rid]}
                                ELSE @]
  /\ UNCHANGED <<dbExists, disk>>
  /\ Forget

\* ------------------------------------------------------- specifications
\* environments handed to a run
SomeFlags == {Undefined, Text(<<"1">>)}

\* every text of at most MaxFlagLen characters, and the texts the gates'
\* documentation and error messages name
FlagChars == {"0", "1", ".", "e", "x", " ", "+"}
NamedFlags ==
  {Undefined, Text(<<>>), Text(<<"0">>), Text(<<"1">>), Text(<<"t", "r", "u", "e">>),
   Text(<<"0", "1">>), Text(<<"1", ".", "0">>), Text(<<"1", "e", "0">>),
   Text(<<"0", "x", "1">>), Text(<<" ", "1", " ">>)}
AllFlags ==
  NamedFlags \cup
  {Text(t) : t \in UNION {[1..n -> FlagChars] : n \in 0..MaxFlagLen}}
Envs(s, flags) ==
  IF s \in Gated
  THEN {[NoEnv EXCEPT ![FlagName(s)] = f] : f \in flags}
  ELSE {NoEnv}

Next ==
  \/ \E s \in Scripts : \E e \in Envs(s, SomeFlags) : Start(s, e)
  \/ Gate
  \/ Connect
  \/ CreateDB
  \/ DropDB
  \/ MigrateCheckDir
  \/ MigrateGetVersion
  \/ MigrateRun
  \/ MigrateRecord
  \/ MigrateComplete
  \/ TruncateSelect
  \/ TruncateExec
  \/ SeedUsers
  \/ End
  \/ ComposeUp
  \/ \E v \in Versions : AddFile(v)
  \/ \E v \in Versions : RemoveFile(v)
  \/ \E b \in BOOLEAN : SetDir(b)
  \/ ProvisionRoleTables
  \/ AppAddUser

Spec == Init /\ [][Next]_vars

\* The gated scripts alone, run with every flag text against a migrated
\* database that holds a user.
MigratedDb ==
  [present |-> TableNames,
   users |-> {[id |-> 1, username |-> "prior"]},
   roles |-> {[id |-> 1, name |-> "prior"]},
   user_roles |-> {[user_id |-> 1, role_id |-> 1]},
   schemaversion |-> {1, 2}, users_id_seq |-> 2, roles_id_seq |-> 2]

InitGate ==
  /\ dbExists \in BOOLEAN
  /\ db = IF dbExists THEN MigratedDb ELSE EmptyDb
  /\ files = {1, 2}
  /\ dirExists = TRUE
  /\ pc = "idle"
  /\ script = "none"
  /\ env = NoEnv
  /\ conn = "none"
  /\ connects = 0
  /\ ends = 0
  /\ stmts = <<>>
  /\ outcome = "none"
  /\ log = {}
  /\ raised = {}
  /\ curVersion = 0
  /\ tableNames = {}
  /\ storeAtStart = [dbExists |-> dbExists, db |-> db]
  /\ prev = NoRun

\* the operator turns to the next task with a fresh terminal
NewSession ==
  /\ pc = "done"
  /\ UNCHANGED <<store, disk>>
  /\ Forget

StartFresh(s, e) == pc = "idle" /\ Start(s, e)

NextGate ==
  \/ \E s \in Gated : \E e \in Envs(s, AllFlags) : StartFresh(s, e)
  \/ NewSession
  \/ Gate
  \/ Connect
  \/ CreateDB
  \/ DropDB
  \/ TruncateSelect
  \/ TruncateExec
  \/ SeedUsers
  \/ End

SpecGate == InitGate /\ [][NextGate]_vars

\* The gated scripts run with every assignment of the three flags to the
\* texts the gates' documentation and error messages name.
EnvsOfAllFlags(flags) ==
  {[CAN_CREATE_DATABASE |-> c, CAN_DROP_DATABASE |-> d,
    CAN_SEED_DATABASE |-> sd, NONE |-> Undefined] :
      c \in flags, d \in flags, sd \in flags}

NextFlags ==
  \/ \E s \in Gated : \E e \in EnvsOfAllFlags(NamedFlags) : StartFresh(s, e)
  \/ NewSession
  \/ Gate
  \/ Connect
  \/ CreateDB
  \/ DropDB
  \/ TruncateSelect
  \/ TruncateExec
  \/ SeedUsers
  \/ End

SpecFlags == InitGate /\ [][NextFlags]_vars

\* ------------------------------------------------------- properties
StoreNow == [dbExists |-> dbExists, db |-> db]
Flag == env[FlagName(script)]
\* the run is a gated script that has executed its module-level check
Checked == script \in Gated /\ pc \notin {"idle", "gate"}
Refused == "permission_error" \in log
\* failures injected into a run: store unreachable, statement rejected
Faults == {ConnectionRefused, InsufficientPrivilege, "42601"}

\* C1: a gated script whose flag is unset, 0, "true", empty, or any other
\* value that is not the number 1, ends at its gate with the permission
\* error: it opened no connection, issued no statement, and the store is
\* what it was when the run started.
RefusedValues ==
  {Undefined, Text(<<>>), Text(<<"0">>), Text(<<"t", "r", "u", "e">>)}
GateRefusalMutatesNothing ==
  (Checked /\ (Flag \in RefusedValues \/ ~IsOne(ToNumber(Flag)))) =>
     /\ pc = "done"
     /\ outcome = "crash"
     /\ Refused
     /\ connects = 0
     /\ conn = "none"
     /\ stmts = <<>>
     /\ StoreNow = storeAtStart

\* seed with CAN_SEED_DATABASE unset: permission error, the user row is kept
SeedRefusedKeepsUsers ==
  /\ script = "seed" /\ pc = "done"
  /\ env.CAN_SEED_DATABASE = Undefined
  /\ Refused /\ outcome = "crash"
  /\ Cardinality(db.users) = 1
  /\ db = MigratedDb

\* C2 as stated: only the one-character text 1 gets a script past its gate.
OnlyLiteralOnePasses ==
  (Checked /\ ~Refused) => Flag = Text(<<"1">>)

\* C2 amended: a script gets past its gate exactly when Number() of the
\* flag text is 1, which the texts 1, 01, 1.0, 1e0, 0x1 and " 1 " all are;
\* every other text ends in the permission error.
NumericOneTexts ==
  {<<"1">>, <<"0", "1">>, <<"1", ".", "0">>, <<"1", "e", "0">>,
   <<"0", "x", "1">>, <<" ", "1", " ">>}
GatePassesIffNumberIsOne ==
  Checked =>
     /\ ~Refused <=> IsOne(ToNumber(Flag))
     /\ (Flag.defined /\ Flag.text \in NumericOneTexts) => ~Refused
     /\ Refused => (pc = "done" /\ outcome = "crash")

\* drop-database.ts got past its gate with CAN_DROP_DATABASE=0x1 and dropped
HexOneDrops ==
  /\ script = "drop" /\ pc = "done"
  /\ Flag = Text(<<"0", "x", "1">>)
  /\ storeAtStart.dbExists /\ ~dbExists

\* ------------------------------------------- create and drop (Spec)
Range(q) == {q[i] : i \in 1..Len(q)}
Permitted == script \in Gated /\ ~Refused
Unfaulted == raised \cap Faults = {}
LedgerVersion == Max(db.schemaversion \cup {0})
VersionAtStart == Max(storeAtStart.db.schemaversion \cup {0})

\* C3 as stated: with the flag at 1 and the store reachable, every Create
\* run ends without error with the database present and every Drop run
\* ends without error with it absent; a Create run against an absent
\* database issues CREATE DATABASE.
CreateAndDropConverge ==
  (pc = "done" /\ script \in {"create", "drop"} /\ Permitted /\ Unfaulted) =>
     /\ outcome = "exit0"
     /\ "error_logged" \notin log
     /\ dbExists = (script = "create")
     /\ (script = "create" /\ ~storeAtStart.dbExists) =>
          Stmt("CREATE DATABASE", 0) \in Range(stmts)

\* C4: Create against an existing database: 42P04 becomes the "already
\* exists" notice, the run completes normally, and the database and its
\* contents are what they were.
CreateOnExistingIsBenign ==
  (pc = "done" /\ script = "create" /\ Permitted /\ Unfaulted
     /\ storeAtStart.dbExists) =>
     /\ stmts = <<Stmt("CREATE DATABASE", 0)>>
     /\ DuplicateDatabase \in raised
     /\ "already_exists" \in log
     /\ "error_logged" \notin log
     /\ outcome = "exit0"
     /\ StoreNow = storeAtStart

\* the second of two Create runs in a row, over a database with a table
SecondCreateReportsExists ==
  /\ pc = "done" /\ script = "create" /\ outcome = "exit0"
  /\ prev.script = "create" /\ prev.outcome = "exit0"
  /\ "already_exists" \in log
  /\ "users" \in db.present

\* C5: Drop against a missing database: 3D000 becomes the "does not exist"
\* notice, the run completes normally, and the database stays absent.
DropOnMissingIsBenign ==
  (pc = "done" /\ script = "drop" /\ Permitted /\ Unfaulted
     /\ ~storeAtStart.dbExists) =>
     /\ stmts = <<Stmt("DROP DATABASE", 0)>>
     /\ InvalidCatalogName \in raised
     /\ "does_not_exist" \in log
     /\ "error_logged" \notin log
     /\ outcome = "exit0"
     /\ ~dbExists

\* the second of two Drop runs in a row, the first of which dropped
SecondDropReportsMissing ==
  /\ pc = "done" /\ script = "drop" /\ outcome = "exit0"
  /\ prev.script = "drop" /\ "dropped" \in prev.log
  /\ "does_not_exist" \in log
  /\ ~dbExists

\* C6 as stated: a statement that fails with an error that is not the benign
\* one of the operation ends the run in a failed outcome, with the
\* connection released.
StatementErrors == {InsufficientPrivilege, "42601", DuplicateTable, UndefinedTable}
UnexpectedErrorIsFatal ==
  (pc = "done" /\ raised \cap StatementErrors # {}) =>
     /\ outcome = "crash"
     /\ conn = "ended"

\* ------------------------------------------- the migration runner (Spec)
\* C7: a migration run right after a run that completed, over the same
\* files, executes no migration body, records nothing, and leaves the
\* ledger as it found it.
SecondMigrateIsNoOp ==
  (script = "migrate" /\ prev.script = "migrate"
     /\ "migration_completed" \in prev.log) =>
     /\ \A x \in Range(stmts) : x.op = "SELECT version"
     /\ db.schemaversion = storeAtStart.db.schemaversion

\* two runs in a row: the first applied 001 and 002, the second completed
MigratedTwice ==
  /\ pc = "done" /\ script = "migrate" /\ prev.script = "migrate"
  /\ prev.applied = 2
  /\ "migration_completed" \in prev.log
  /\ "migration_completed" \in log
  /\ db.schemaversion = {1, 2}

\* what C8 says of a completed run, but for the version the ledger ends at
RunsPendingInOrder ==
  LET b == Bodies(stmts)
  IN /\ {b[i].arg : i \in 1..Len(b)} = {f \in files : f > VersionAtStart}
     /\ \A i, j \in 1..Len(b) : i < j => b[i].arg < b[j].arg
     /\ \A i \in 1..Len(stmts) :
          IsBody(stmts[i]) =>
            /\ i < Len(stmts)
            /\ stmts[i + 1] = Stmt("INSERT schemaversion", stmts[i].arg)
     /\ db.schemaversion =
          storeAtStart.db.schemaversion \cup {f \in files : f > VersionAtStart}

Completed == script = "migrate" /\ pc = "done" /\ "migration_completed" \in log

\* C8 as stated: a completed run executes exactly the files above the ledger
\* version, each once, ascending, each recorded right after its body, and
\* the ledger ends at the highest file version.
MigrateEndsAtHighestFile ==
  Completed => (RunsPendingInOrder /\ LedgerVersion = Max(files \cup {0}))

\* C8 amended: ... and the ledger ends at the highest file version, or at
\* the version it started from when that is higher than every file.
MigrateEndsAtHighestOfFilesAndLedger ==
  Completed =>
    (RunsPendingInOrder /\ LedgerVersion = Max(files \cup {VersionAtStart}))

\* files 001, 002, 003 with only 001 applied: 002 then 003, ledger at 003
AppliesTwoThenThree ==
  /\ Completed
  /\ files = {1, 2, 3}
  /\ storeAtStart.db.schemaversion = {1}
  /\ Bodies(stmts) = <<Stmt("BODY", 2), Stmt("BODY", 3)>>
  /\ LedgerVersion = 3

\* C9: when the body of migration k fails the run aborts: nothing above k
\* was executed, the ledger is at the last migration applied (below k), and
\* the next run over the same files starts again with k.
MigrationFailureAborts ==
  /\ (script = "migrate" /\ pc \in {"end", "done"} /\ FailedAt(stmts) > 0) =>
       LET k == FailedAt(stmts)
           b == Bodies(stmts)
       IN /\ "error_logged" \in log
          /\ "migration_completed" \notin log
          /\ \A i \in 1..Len(b) : b[i].arg <= k
          /\ LedgerVersion < k
          /\ LedgerVersion = IF Len(b) > 1 THEN b[Len(b) - 1].arg
                             ELSE VersionAtStart
          /\ pc = "done" => conn = "ended"
  /\ (script = "migrate" /\ prev.script = "migrate" /\ prev.failedAt > 0
        /\ Bodies(stmts) # <<>>) =>
       Bodies(stmts)[1].arg = prev.failedAt

\* 001 applied, 002 failed, and the next run executed 002 again
ResumedAfterFailure ==
  /\ script = "migrate" /\ pc = "done"
  /\ prev.script = "migrate"
  /\ prev.applied = 1
  /\ prev.failedAt = 2
  /\ Bodies(stmts) = <<Stmt("BODY", 2)>>
  /\ db.schemaversion = {1, 2}

\* ------------------------------------------- the seed script (Spec)
UserIds(name) == {u.id : u \in {r \in db.users : r.username = name}}
RolesOf(name) == {ur.role_id : ur \in {r \in db.user_roles : r.user_id \in UserIds(name)}}
RoleIds(names) == {r.id : r \in {x \in db.roles : x.name \in names}}

\* C10 as stated: after a seed run over a database that has the users,
\* roles and user_roles tables, basic holds the role created for basic,
\* moderator those of basic and moderator, admin all three.
SeedBuildsRoleHierarchy ==
  (pc = "done" /\ script = "seed" /\ Permitted /\ Unfaulted
     /\ {"users", "roles", "user_roles"} \subseteq db.present) =>
     /\ RolesOf("basic") = RoleIds({"basic"})
     /\ RolesOf("moderator") = RoleIds({"basic", "moderator"})
     /\ RolesOf("admin") = RoleIds({"basic", "moderator", "admin"})
     /\ Cardinality(RolesOf("basic")) = 1
     /\ Cardinality(RolesOf("moderator")) = 2
     /\ Cardinality(RolesOf("admin")) = 3

\* the roster of seedUsers
usernames == <<"basic", "moderator", "admin">>

SeededRowExists ==
  \/ \E u \in db.users : u.username \in Range(usernames)
  \/ \E r \in db.roles : r.name \in Range(usernames)
HoldsPriorRow ==
  \/ db.users \cap storeAtStart.db.users # {}
  \/ db.roles \cap storeAtStart.db.roles # {}
  \/ db.user_roles \cap storeAtStart.db.user_roles # {}
  \/ db.schemaversion \cap storeAtStart.db.schemaversion # {}
TablesEmpty ==
  /\ db.users = {} /\ db.roles = {} /\ db.user_roles = {}
  /\ db.schemaversion = {}

\* C11: in every state of a seed run, between its statements and after a
\* failure part-way included, no base table holds a row from before the run
\* while a seeded row exists; from the moment seedUsers is entered, the
\* point of the first INSERT, every base table is empty.
NoMixedPreAndPostSeedState ==
  script = "seed" =>
    /\ ~(SeededRowExists /\ HoldsPriorRow)
    /\ (pc = "seedUsers" \/ "TypeError" \in raised) => TablesEmpty

\* seedUsers is about to start over tables that held users, roles and a
\* ledger when the run began
SeedUsersStartsOnEmptiedTables ==
  /\ script = "seed" /\ pc = "seedUsers"
  /\ "truncated" \in log
  /\ storeAtStart.db.users # {}
  /\ storeAtStart.db.roles # {}
  /\ storeAtStart.db.schemaversion # {}
  /\ TablesEmpty

\* C12 as stated: a run of a script other than migrate leaves the ledger of
\* the database it works on as it found it, so a migrate run after a seed
\* run finds the version the migrate run before it recorded.
OnlyMigrateChangesLedger ==
  (script \in Scripts \ {"migrate"} /\ dbExists) =>
     /\ db.schemaversion = storeAtStart.db.schemaversion
     /\ LedgerVersion = VersionAtStart

\* connect() of the run resolved
Connected == connects = 1 /\ "unhandled_rejection" \notin log

\* C13: a run of any of the four scripts calls connect at most once and,
\* once connect has resolved, has called end exactly once by the time it
\* finishes: after full success, after a benign store error and after an
\* unexpected failure alike; end is never called without a connection.
ConnectionReleasedExactlyOnce ==
  /\ connects <= 1
  /\ ends <= 1
  /\ ends = 1 => Connected
  /\ conn = "open" => (Connected /\ ends = 0 /\ pc # "done")
  /\ (pc = "done" /\ Connected) => (ends = 1 /\ conn = "ended")

\* a migrate run whose migration body was rejected has released its
\* connection
ReleasedAfterFailedMigration ==
  /\ script = "migrate" /\ pc = "done"
  /\ "42601" \in raised
  /\ connects = 1 /\ ends = 1 /\ conn = "ended"

\* C14 as stated: a migrate run that finds no migration directory, the
\* store being reachable and the database there, has opened no connection
\* and issued no statement, and ends as a failed run.
MissingDirectoryIsFatalBeforeConnect ==
  (script = "migrate" /\ ~dirExists /\ pc = "done"
     /\ storeAtStart.dbExists /\ Unfaulted) =>
     /\ connects = 0
     /\ conn = "none"
     /\ stmts = <<>>
     /\ outcome = "crash"

\* a statement of truncateTables was rejected
TruncationFailed == script = "seed" /\ InsufficientPrivilege \in raised

\* C15: when the enumeration or the batched TRUNCATE of a seed run fails,
\* the run goes to its catch: seedUsers is not entered, no statement other
\* than those of truncateTables is issued, no seeded row exists and the
\* store is what it was when the run started.
NoSeedingAfterFailedTruncation ==
  TruncationFailed =>
     /\ pc \in {"end", "done"}
     /\ "TypeError" \notin raised
     /\ \A i \in 1..Len(stmts) : stmts[i].op \in {"SELECT table_name", "TRUNCATE"}
     /\ ~SeededRowExists
     /\ StoreNow = storeAtStart

\* the TRUNCATE of a seed run over a table with a user was rejected, and
\* the run is over with the user still there
SeedEndedAtFailedTruncate ==
  /\ TruncationFailed /\ pc = "done"
  /\ stmts = <<Stmt("SELECT table_name", 0), Stmt("TRUNCATE", 0)>>
  /\ db.users # {}
  /\ db.users = storeAtStart.db.users

\* the files below the version the ledger recorded when the run started
\* that the ledger had no record of
SkippedFiles ==
  {f \in files : f < VersionAtStart /\ f \notin storeAtStart.db.schemaversion}

\* C16: a migrate run that finds a file whose version is below the ledger's
\* version and was never applied does not complete: it executes no
\* migration, records nothing, and once over has reported the error.
SkippedMigrationIsAnError ==
  (script = "migrate" /\ SkippedFiles # {}) =>
     /\ ~Completed
     /\ Bodies(stmts) = <<>>
     /\ db.schemaversion = storeAtStart.db.schemaversion
     /\ (pc = "done" /\ Connected /\ dirExists /\ Unfaulted) =>
          (ValidationFailed \in raised /\ "error_logged" \in log)

\* file 2 was added after 1 and 3 were applied, and the run is over with
\* the error reported
FileTwoAddedAfterThree ==
  /\ script = "migrate" /\ pc = "done"
  /\ files = {1, 2, 3}
  /\ storeAtStart.db.schemaversion = {1, 3}
  /\ ValidationFailed \in raised
  /\ db.schemaversion = {1, 3}

\* connect() of the run rejected
ConnectFailed == connects = 1 /\ conn = "none"

\* C17: a run of any script whose connection could not be established
\* (store unreachable, authentication refused, database of the Client not
\* there) is over as a failed run, has issued no statement, called no end
\* and left the store as it was.
ConnectFailureIsFatal ==
  (script \in Scripts /\ (ConnectFailed \/ ConnectionRefused \in raised)) =>
     /\ pc = "done"
     /\ outcome = "crash"
     /\ stmts = <<>>
     /\ ends = 0
     /\ raised \cap {ConnectionRefused, InvalidCatalogName} # {}
     /\ StoreNow = storeAtStart

\* a permitted seed run over a table with a user could not reach the store
SeedCouldNotConnect ==
  /\ script = "seed" /\ pc = "done"
  /\ Permitted
  /\ ConnectionRefused \in raised
  /\ outcome = "crash"
  /\ db.users # {}

\* ------------------------------------------- the three flags (SpecFlags)
\* C18: under every assignment of the three flags, a create run passes its
\* gate iff CAN_CREATE_DATABASE is the number 1, a drop run iff
\* CAN_DROP_DATABASE is, a seed run iff CAN_SEED_DATABASE is: the other two
\* flags have no part in it.
EachGateReadsItsOwnFlag ==
  Checked =>
    /\ script = "create" => (~Refused <=> IsOne(ToNumber(env.CAN_CREATE_DATABASE)))
    /\ script = "drop" => (~Refused <=> IsOne(ToNumber(env.CAN_DROP_DATABASE)))
    /\ script = "seed" => (~Refused <=> IsOne(ToNumber(env.CAN_SEED_DATABASE)))

\* a seed run refused with the create and drop flags at 1, the users kept
SeedRefusedWithOtherFlagsAtOne ==
  /\ script = "seed" /\ pc = "done"
  /\ env.CAN_CREATE_DATABASE = Text(<<"1">>)
  /\ env.CAN_DROP_DATABASE = Text(<<"1">>)
  /\ env.CAN_SEED_DATABASE = Undefined
  /\ Refused
  /\ stmts = <<>>
  /\ db.users # {}

\* C19 as stated: a seed run that follows a seed run, both permitted and
\* with no statement rejected by the store, over a database that has the
\* users, roles and user_roles tables, ends with the rows the first run
\* left: exactly the three users of the roster, the same ids and the same
\* role associations.
SeedTwiceIsSeedOnce ==
  (pc = "done" /\ script = "seed" /\ Permitted /\ Unfaulted
     /\ prev.script = "seed" /\ prev.outcome = "exit0"
     /\ {"users", "roles", "user_roles"} \subseteq db.present) =>
     /\ Cardinality(db.users) = 3
     /\ {u.username : u \in db.users} = Range(usernames)
     /\ db.users = storeAtStart.db.users
     /\ db.roles = storeAtStart.db.roles
     /\ db.user_roles = storeAtStart.db.user_roles
====
